---- MODULE Spec2Model ----
(***************************************************************************)
(* Provider-to-shift scheduling: constraint model, two-phase solve,        *)
(* solution pool and diversity selection.                                  *)
(*                                                                         *)
(* Three implementations of the solve live in the repository; `variant'    *)
(* says which one a behaviour follows:                                      *)
(*   "gui"   public/local-solver-package/testcase_gui.py                   *)
(*   "core"  scheduler_sat_core.py                                         *)
(*   "pub"   public/local-solver-package/scheduler_sat_core.py             *)
(***************************************************************************)
EXTENDS Integers, Sequences, FiniteSets, TLC

VARIABLES
    variant,    \* which implementation runs
    inst,       \* the case: calendar, shifts, providers
    pc,         \* position of the run in the pipeline
    st1,        \* status of the (first) solve
    sol1,       \* values held by the solver after the (first) solve
    frozen,     \* slack values pinned for Phase 2
    sol2,       \* values handed to the solution callback of the pool solve
    cb_pool,    \* collector pool: sequence of [objective, vector]
    K,          \* requested number of solutions
    L,          \* requested Hamming threshold
    idxs,       \* sorted candidate list (indices into cb_pool)
    selected,   \* selected entries (indices into cb_pool), in order
    thr,        \* threshold in effect
    kpos,       \* position of the scan in idxs
    found_one,  \* pub selector: a candidate was taken in this scan
    meta,       \* statistics reported with the result
    cal_path,   \* how the case reaches the solver: through the service or directly
    cal_stage,  \* position of the case in the calendar preparation
    calendar_in,\* the calendar object as submitted
    calendar,   \* the calendar object as prepared so far
    shift_date, \* the date of the shift of the case
    nDays,      \* len(days) of the case
    nShifts,    \* len(shifts) of the case
    svc,        \* which service runs: the public package's or the repository's
    active_runs,\* run_id -> status record
    websocket_connections, \* the items (run_id, client) of the dict
    sockets,    \* the (run_id, client) whose websocket_endpoint is running
    hpc,        \* run_id -> position of its request handler and background task
    job,        \* (run_id, task) -> the solve submitted to the thread pool
    cwd,        \* the working directory of the process
    _seen_vecs, \* collector: the bit vectors recorded so far
    _best,      \* collector: the best objective handed to the callback
    pool_vecs   \* collector: the bit vectors of the pool entries

vars == <<variant, inst, pc, st1, sol1, frozen, sol2, cb_pool, K, L,
          idxs, selected, thr, kpos, found_one, meta,
          cal_path, cal_stage, calendar_in, calendar, shift_date,
          nDays, nShifts,
          svc, active_runs, websocket_connections, sockets, hpc, job, cwd,
          _seen_vecs, _best, pool_vecs>>

solveVars == <<inst, st1, sol1, frozen, sol2>>
selVars   == <<cb_pool, K, L, idxs, selected, thr, kpos, found_one, meta>>
calVars   == <<cal_path, cal_stage, calendar_in, calendar, shift_date>>
dimVars   == <<nDays, nShifts>>
svcVars   == <<svc, active_runs, websocket_connections, sockets, hpc, job, cwd>>
colVars   == <<_seen_vecs, _best, pool_vecs>>
auxVars   == <<calVars, dimVars, svcVars, colVars>>

----------------------------------------------------------------------------
(* Bounds of the selector model *)

VecLen  == 2
MaxPool == 2
MaxObj  == 1
MaxK    == 3
MaxL    == 2

(* Bounds of the instance model *)

NumDays      == 2
NumShifts    == 2
NumProviders == 2

relax_to == 0

NoInst == [none |-> TRUE]
NoSol  == [none |-> TRUE]
NoMeta == [none |-> TRUE]
NoCal  == [none |-> TRUE]

calIdle ==
    /\ cal_path = "none" /\ cal_stage = "idle"
    /\ calendar_in = NoCal /\ calendar = NoCal /\ shift_date = NoCal

dimIdle == nDays = 0 /\ nShifts = 0

svcIdle ==
    /\ svc = "none" /\ active_runs = << >> /\ websocket_connections = {}
    /\ sockets = {}
    /\ hpc = << >> /\ job = << >> /\ cwd = "none"

colIdle == _seen_vecs = {} /\ _best = -1 /\ pool_vecs = << >>

auxIdle == calIdle /\ svcIdle /\ colIdle

Min2(a, b) == IF a <= b THEN a ELSE b
Max2(a, b) == IF a >= b THEN a ELSE b

----------------------------------------------------------------------------
(* Diversity selector *)

Vecs == [1..VecLen -> {0, 1}]

PoolEntries == [objective : 0..MaxObj, vector : Vecs]

\* pools as the collectors leave them: entries with pairwise distinct vectors
Pools ==
    { p \in UNION { [1..n -> PoolEntries] : n \in 0..MaxPool } :
        \A i, j \in DOMAIN p : i # j => p[i].vector # p[j].vector }

_hamming(a, b) ==
    Cardinality({ i \in 1..Min2(Len(a), Len(b)) : a[i] # b[i] })

\* list.sort(key = objective): stable, ascending
RECURSIVE InsertByObj(_, _, _)
InsertByObj(sorted, k, pool) ==
    IF sorted = << >> THEN << k >>
    ELSE IF pool[Head(sorted)].objective <= pool[k].objective
         THEN << Head(sorted) >> \o InsertByObj(Tail(sorted), k, pool)
         ELSE << k >> \o sorted

RECURSIVE SortPrefix(_, _)
SortPrefix(pool, n) ==
    IF n = 0 THEN << >>
    ELSE InsertByObj(SortPrefix(pool, n - 1), n, pool)

\* the same order reversed (sense = 'max')
SortDesc(pool) ==
    LET asc == SortPrefix(pool, Len(pool))
    IN  [i \in 1..Len(asc) |-> asc[Len(asc) + 1 - i]]

SortIdxs(pool) == SortPrefix(pool, Len(pool))

\* a weaker test: distance to the last selection only
DiverseLastOnly(k, sel, t, pool) ==
    sel = << >> \/ _hamming(pool[k].vector, pool[sel[Len(sel)]].vector) >= t

\* all(_hamming(vec, cb_vecs[j]) >= thr for j in selected)
GuiDiverse(k, sel, t, pool) ==
    \A j \in 1..Len(sel) : _hamming(pool[k].vector, pool[sel[j]].vector) >= t

\* is_diverse_enough
CoreDiverse(k, sel, t, pool) ==
    \A j \in 1..Len(sel) : _hamming(pool[k].vector, pool[sel[j]].vector) >= t

RemoveAt(s, i) == SubSeq(s, 1, i - 1) \o SubSeq(s, i + 1, Len(s))

(* testcase_gui._select_diverse_k *)

GuiSelectStart ==
    /\ pc = "select" /\ variant = "gui"
    /\ idxs' = SortIdxs(cb_pool)
    /\ selected' = << >>
    /\ thr' = L
    /\ kpos' = 1
    /\ pc' = "g_scan"
    /\ UNCHANGED <<variant, cb_pool, K, L, found_one, meta>>
    /\ UNCHANGED <<solveVars, auxVars>>

GuiScan ==
    /\ pc = "g_scan" /\ kpos <= Len(idxs)
    /\ LET k == idxs[kpos] IN
         IF GuiDiverse(k, selected, thr, cb_pool)
         THEN /\ selected' = Append(selected, k)
              /\ IF Len(selected) + 1 = K
                 THEN pc' = "selected" /\ kpos' = kpos
                 ELSE pc' = pc /\ kpos' = kpos + 1
         ELSE /\ selected' = selected
              /\ pc' = pc
              /\ kpos' = kpos + 1
    /\ UNCHANGED <<variant, cb_pool, K, L, idxs, thr, found_one, meta>>
    /\ UNCHANGED <<solveVars, auxVars>>

\* a relaxation step that leaves the threshold where it is
KeepThreshold(t) == t

\* a relaxation step that lowers the threshold by two
RelaxByTwo(t) == t - 2

\* thr -= 1
Relax(t) == t - 1

GuiPassEnd ==
    /\ pc = "g_scan" /\ kpos > Len(idxs)
    /\ IF thr > relax_to
       THEN thr' = Relax(thr) /\ kpos' = 1 /\ pc' = pc
       ELSE thr' = thr /\ kpos' = kpos /\ pc' = "selected"
    /\ UNCHANGED <<variant, cb_pool, K, L, idxs, selected, found_one, meta>>
    /\ UNCHANGED <<solveVars, auxVars>>

(* public scheduler_sat_core._select_diverse_k *)

CoreSelectStart ==
    /\ pc = "select" /\ variant = "pub"
    /\ IF cb_pool = << >>
       THEN /\ selected' = << >> /\ idxs' = << >>
            /\ pc' = "selected"
       ELSE /\ selected' = << Head(SortIdxs(cb_pool)) >>
            /\ idxs' = Tail(SortIdxs(cb_pool))
            /\ pc' = "c_while"
    /\ thr' = L
    /\ UNCHANGED <<variant, cb_pool, K, L, kpos, found_one, meta>>
    /\ UNCHANGED <<solveVars, auxVars>>

CoreWhile ==
    /\ pc = "c_while"
    /\ IF Len(selected) < K /\ idxs # << >>
       THEN found_one' = FALSE /\ kpos' = 1 /\ pc' = "c_scan"
       ELSE found_one' = found_one /\ kpos' = kpos /\ pc' = "selected"
    /\ UNCHANGED <<variant, cb_pool, K, L, idxs, selected, thr, meta>>
    /\ UNCHANGED <<solveVars, auxVars>>

CoreScan ==
    /\ pc = "c_scan" /\ kpos <= Len(idxs)
    /\ IF CoreDiverse(idxs[kpos], selected, thr, cb_pool)
       THEN /\ selected' = Append(selected, idxs[kpos])
            /\ idxs' = RemoveAt(idxs, kpos)
            /\ found_one' = TRUE
            /\ kpos' = kpos
            /\ pc' = "c_while"
       ELSE /\ kpos' = kpos + 1
            /\ UNCHANGED <<selected, idxs, found_one, pc>>
    /\ UNCHANGED <<variant, cb_pool, K, L, thr, meta>>
    /\ UNCHANGED <<solveVars, auxVars>>

CoreNotFound ==
    /\ pc = "c_scan" /\ kpos > Len(idxs)
    /\ IF thr > relax_to
       THEN thr' = Relax(thr) /\ pc' = "c_while" /\ selected' = selected
       ELSE /\ selected' = selected \o SubSeq(idxs, 1, Min2(K - Len(selected), Len(idxs)))
            /\ thr' = thr
            /\ pc' = "selected"
    /\ UNCHANGED <<variant, cb_pool, K, L, idxs, kpos, found_one, meta>>
    /\ UNCHANGED <<solveVars, auxVars>>

(* solve_two_phase after the selection: the reported statistics *)

GuiMeta(pool, sel, reqL, t) ==
    [hasL |-> TRUE, L |-> reqL,
     solutions_collected |-> Len(pool), solutions_selected |-> Len(sel)]

CoreStats(pool, sel, reqL, t) ==
    [hasL |-> FALSE, L |-> 0,
     solutions_collected |-> Len(pool), solutions_selected |-> Len(sel)]

Format ==
    /\ pc = "selected"
    /\ meta' = IF variant = "gui" THEN GuiMeta(cb_pool, selected, L, thr)
               ELSE CoreStats(idxs, selected, L, thr)
    /\ pc' = "Formatted"
    /\ UNCHANGED <<variant, cb_pool, K, L, idxs, selected, thr, kpos, found_one>>
    /\ UNCHANGED <<solveVars, auxVars>>

InitSel ==
    /\ variant \in {"gui", "pub"}
    /\ cb_pool \in Pools
    /\ K \in 0..MaxK
    /\ L \in 0..MaxL
    /\ pc = "select"
    /\ idxs = << >> /\ selected = << >> /\ thr = 0 /\ kpos = 1
    /\ found_one = FALSE
    /\ meta = NoMeta
    /\ inst = NoInst /\ st1 = "NONE" /\ sol1 = NoSol /\ frozen = NoSol /\ sol2 = NoSol
    /\ auxIdle /\ dimIdle

NextSel ==
    \/ GuiSelectStart \/ GuiScan \/ GuiPassEnd
    \/ CoreSelectStart \/ CoreWhile \/ CoreScan \/ CoreNotFound
    \/ Format

SpecSel == InitSel /\ [][NextSel]_vars

\* the selector is sequential code: it takes its next step whenever it has one
SpecSelFair == InitSel /\ [][NextSel]_vars /\ WF_vars(NextSel)

----------------------------------------------------------------------------
(* The case: calendar, shifts, providers *)

Days      == 1..nDays
Shifts    == 1..nShifts
Providers == 1..NumProviders

ProviderTypes == {"MD", "NP"}
ANY == "ANY"

\* a key the case does not carry
NoKey == -1

Statuses == {"OPTIMAL", "FEASIBLE", "INFEASIBLE", "UNKNOWN"}

RECURSIVE SumOver(_, _)
SumOver(f, S) ==
    IF S = {} THEN 0
    ELSE LET e == CHOOSE e \in S : TRUE IN f[e] + SumOver(f, S \ {e})

RECURSIVE MaxOver(_, _)
MaxOver(f, S) ==
    IF S = {} THEN 0
    ELSE LET e == CHOOSE e \in S : TRUE IN Max2(f[e], MaxOver(f, S \ {e}))

\* sum(x[s, p] for s in ...) over a set of shifts
Worked(x, p, S) == Cardinality({ s \in S : x[s, p] = 1 })

\* sum(x[s, p] for p in P)
Assigned(x, s) == Cardinality({ p \in Providers : x[s, p] = 1 })

XSpace == [Shifts \X Providers -> {0, 1}]

day_to_shifts(I, d) == { s \in Shifts : I.shifts[s].date = d }

ZeroP  == [p \in Providers |-> 0]
ZeroPD == [pd \in Providers \X Days |-> 0]

----------------------------------------------------------------------------
(* testcase_gui.build_model: the hard constraints *)

c_slack_unfilled   == 1
c_slack_shift_less == 1
c_slack_shift_more == 1
c_slack_cant_work  == 1
c_slack_consec     == 1
MinRestHours       == 12

\* a weaker coverage rule: several providers may share a shift
CoverageAtLeastOne(I, x, u) ==
    \A s \in Shifts : Assigned(x, s) + u[s] >= 1

\* model.Add(sum(x[i, j] for j in P) + slack_unfilled[i] == 1)
CoverageGui(I, x, u) ==
    \A s \in Shifts : Assigned(x, s) + u[s] = 1

\* y[(i, d)] = 1 iff provider i works any shift on day d
WorksDay(I, x, p) ==
    [d \in Days |-> IF \E s \in day_to_shifts(I, d) : x[s, p] = 1 THEN 1 ELSE 0]

\* a streak count that is not reset by a day off
RECURSIVE RunNoReset(_, _)
RunNoReset(y, d) ==
    IF d = 1 THEN y[d]
    ELSE RunNoReset(y, d - 1) + y[d]

\* run[d]: consecutive streak of worked days ending at day d
RECURSIVE RunAt(_, _)
RunAt(y, d) ==
    IF y[d] = 0 THEN 0
    ELSE IF d = 1 THEN 1
    ELSE IF y[d - 1] = 1 THEN RunAt(y, d - 1) + 1
    ELSE 1

\* AddMaxEquality(max_clusters[i], run)
MaxCluster(I, x, p) ==
    LET y == WorksDay(I, x, p)
    IN  MaxOver([d \in Days |-> RunAt(y, d)], Days)

\* max_consec = [providers[j].get('max_consecutive_days', 0) ...], 0 if not i else i
MaxConsecOf(I, p) ==
    IF I.providers[p].max_consecutive_days = NoKey THEN 0
    ELSE I.providers[p].max_consecutive_days

\* slack_consec[i] = max(0, max_clusters[i] - max_consec[i]) when max_consec[i] > 0
SlackConsec(I, x, p) ==
    IF MaxConsecOf(I, p) > 0
    THEN Max2(MaxCluster(I, x, p) - MaxConsecOf(I, p), 0)
    ELSE 0

\* the 12-hour rule applied only to pairs in input order
TooCloseInOrder(I, s1, s2) ==
    /\ s1 < s2
    /\ I.shifts[s1].start <= I.shifts[s2].start
    /\ \/ I.shifts[s2].start < I.shifts[s1].end
       \/ I.shifts[s2].start - I.shifts[s1].end < MinRestHours

\* the pairs of the 12-hour rule
TooClose(I, s1, s2) ==
    /\ s1 # s2
    /\ I.shifts[s1].start <= I.shifts[s2].start
    /\ \/ I.shifts[s2].start < I.shifts[s1].end
       \/ I.shifts[s2].start - I.shifts[s1].end < MinRestHours

\* model.AddAtMostOne([x[iter1, j], x[iter2, j]])
RestGui(I, x) ==
    \A s1, s2 \in Shifts : \A p \in Providers :
        TooClose(I, s1, s2) => x[s1, p] + x[s2, p] <= 1

\* model.Add(x[s, p] == 0) when the provider's type is not allowed
TypeGui(I, x) ==
    \A s \in Shifts : \A p \in Providers :
        I.providers[p].type \notin I.shifts[s].allowed_provider_types => x[s, p] = 0

MinTotalGui(I, p) == I.providers[p].limits.min_total
MaxTotalGui(I, p) ==
    IF I.providers[p].limits.max_total = NoKey THEN nShifts
    ELSE I.providers[p].limits.max_total

\* sum + slack_shift_less >= min_total, sum - slack_shift_more <= max_total
LimitsGui(I, x, less, more) ==
    \A p \in Providers :
        /\ Worked(x, p, Shifts) + less[p] >= MinTotalGui(I, p)
        /\ Worked(x, p, Shifts) - more[p] <= MaxTotalGui(I, p)

\* a slack that counts nothing
NoSlackCantWork(I, x, p) == 0

\* slack_cant_work[j] == sum(x[s, j] for s with a forbidden date)
SlackCantWork(I, x, p) ==
    Worked(x, p, { s \in Shifts : I.shifts[s].date \in I.providers[p].forbidden_days_hard })

\* one miss per hard-required date on which no requested shift is worked
HardOnMiss(I, x, p, d) ==
    LET tlist == I.providers[p].preferred_days_hard[d]
        Sh    == day_to_shifts(I, d)
        R     == IF ANY \in tlist THEN Sh
                 ELSE { s \in Sh : I.shifts[s].type \in tlist }
    IN  IF tlist = {} THEN 0
        ELSE IF Sh = {} \/ R = {} THEN 1
        ELSE IF \E s \in R : x[s, p] = 1 THEN 0 ELSE 1

\* slack_hard_on[j] == sum(terms)
SlackHardOn(I, x, p) ==
    SumOver([d \in Days |-> HardOnMiss(I, x, p, d)], Days)

\* least values of the inequality-defined slacks
ShortfallOf(I, x, p) == Max2(MinTotalGui(I, p) - Worked(x, p, Shifts), 0)
ExcessOf(I, x, p)    == Max2(Worked(x, p, Shifts) - MaxTotalGui(I, p), 0)

\* the values a solver can hold for slack_shift_less / slack_shift_more with
\* assignment x: the least ones, or one variable left one above its least value
SlackChoices(I, x) ==
    LET tl == [p \in Providers |-> ShortfallOf(I, x, p)]
        tm == [p \in Providers |-> ExcessOf(I, x, p)]
    IN  {[less |-> tl, more |-> tm]}
        \cup {[less |-> [tl EXCEPT ![p] = @ + 1], more |-> tm] : p \in Providers}
        \cup {[less |-> tl, more |-> [tm EXCEPT ![p] = @ + 1]] : p \in Providers}

GuiSol(I, x, u, lm) ==
    [x        |-> x,
     unfilled |-> u,
     less     |-> lm.less,
     more     |-> lm.more,
     cant     |-> [p \in Providers |-> SlackCantWork(I, x, p)],
     consec   |-> [p \in Providers |-> SlackConsec(I, x, p)],
     hard_on  |-> [p \in Providers |-> SlackHardOn(I, x, p)],
     cant_day |-> ZeroPD]

\* every assignment of the Phase-1 model's variables that meets its constraints
GuiSolutions(I) ==
    UNION { UNION { { GuiSol(I, x, u, lm) :
                        lm \in { c \in SlackChoices(I, x) : LimitsGui(I, x, c.less, c.more) } } :
                    u \in { v \in [Shifts -> {0, 1}] : CoverageGui(I, x, v) } } :
            x \in { z \in XSpace : TypeGui(I, z) /\ RestGui(I, z) } }

\* U: the weighted hard-slack sum minimised in Phase 1
HardSlackSum(s) ==
      c_slack_unfilled   * SumOver(s.unfilled, Shifts)
    + c_slack_shift_less * SumOver(s.less, Providers)
    + c_slack_shift_more * SumOver(s.more, Providers)
    + c_slack_cant_work  * SumOver(s.cant, Providers)
    + c_slack_consec     * SumOver(s.consec, Providers)
    + c_slack_cant_work  * SumOver(s.hard_on, Providers)

\* the solutions of least objective; obj maps each solution to its objective
Minimisers(sols, obj) ==
    LET vals == { obj[s] : s \in sols }
        m    == CHOOSE v \in vals : \A w \in vals : v <= w
    IN  { s \in sols : obj[s] = m }


HasSol(s) == "x" \in DOMAIN s

SlackValues(s) ==
    [unfilled |-> s.unfilled, less |-> s.less, more |-> s.more,
     cant |-> s.cant, consec |-> s.consec, hard_on |-> s.hard_on]

\* a freeze that leaves slack_cant_work free
PinnedExceptCant(I, fz, s) ==
    /\ s.unfilled = fz.unfilled
    /\ s.less = fz.less
    /\ s.more = fz.more
    /\ s.consec = fz.consec
    /\ s.hard_on = fz.hard_on

\* for i in (slack_unfilled + ... + slack_hard_on): model.Add(i == solver.Value(i))
Pinned(I, fz, s) ==
    /\ s.unfilled = fz.unfilled
    /\ s.less = fz.less
    /\ s.more = fz.more
    /\ s.cant = fz.cant
    /\ s.consec = fz.consec
    /\ s.hard_on = fz.hard_on

\* the Phase-2 model: the Phase-1 constraints with every slack pinned
Phase2Solutions(I, fz) ==
    UNION { { GuiSol(I, x, u, [less |-> fz.less, more |-> fz.more]) :
                u \in { v \in [Shifts -> {0, 1}] : CoverageGui(I, x, v) } } :
            x \in { z \in XSpace : /\ TypeGui(I, z) /\ RestGui(I, z)
                                   /\ LimitsGui(I, z, fz.less, fz.more) } }

GuiPhase2Feasible(I, fz) ==
    { s \in Phase2Solutions(I, fz) : Pinned(I, fz, s) }

----------------------------------------------------------------------------
(* scheduler_sat_core.build_model *)

DefaultMaxConsecCore == 31
CoreUnfilledWeight   == 20
CoreCantWorkWeight   == 20

\* the part of a shift type before the first underscore ("" when there is none)
PrefixOf(t) == IF t = "MD_day" THEN "MD" ELSE ""

\* infer_allowed_types
infer_allowed_types(I, s) ==
    LET provider_types == { I.providers[p].type : p \in Providers }
    IN  IF I.shifts[s].allowed_provider_types # {}
        THEN I.shifts[s].allowed_provider_types
        ELSE IF PrefixOf(I.shifts[s].type) \in provider_types
             THEN { PrefixOf(I.shifts[s].type) }
             ELSE provider_types

\* assignment variables; NewIntVar(0, 0) for a type that is not allowed
TypeCore(I, x) ==
    \A s \in Shifts : \A p \in Providers :
        I.providers[p].type \notin infer_allowed_types(I, s) => x[s, p] = 0

\* Constraint 1: sum(assigned_vars) + slack_var == 1
CoverageCore(I, x, u) ==
    \A s \in Shifts : Assigned(x, s) + u[s] = 1

\* Constraint 4: d[(prov_name, day_idx)] <= slack_var
ForbiddenCore(I, x, cd) ==
    \A p \in Providers : \A d \in I.providers[p].forbidden_days_hard :
        d \in Days => WorksDay(I, x, p)[d] <= cd[p, d]

MaxConsecCore(I, p) ==
    IF I.providers[p].max_consecutive_days = NoKey THEN DefaultMaxConsecCore
    ELSE I.providers[p].max_consecutive_days

\* Constraint 5: every window of max_consec + 1 days has at most max_consec worked
ConsecCoreFor(I, x, p) ==
    LET mc == MaxConsecCore(I, p)
        y  == WorksDay(I, x, p)
    IN  mc < nDays =>
          \A start \in 1..(nDays - mc) :
              SumOver(y, start..(start + mc)) <= mc

ConsecCore(I, x) == \A p \in Providers : ConsecCoreFor(I, x, p)

\* slack of a forbidden day: its least value, or left at 1
CantDayChoices(I, x) ==
    LET tight == [pd \in Providers \X Days |->
                    IF pd[2] \in I.providers[pd[1]].forbidden_days_hard
                    THEN WorksDay(I, x, pd[1])[pd[2]] ELSE 0]
    IN  {tight} \cup
        { [tight EXCEPT ![pd] = 1] :
            pd \in { q \in Providers \X Days : q[2] \in I.providers[q[1]].forbidden_days_hard } }

CoreSol(I, x, u, cd) ==
    [x |-> x, unfilled |-> u, less |-> ZeroP, more |-> ZeroP, cant |-> ZeroP,
     consec |-> ZeroP, hard_on |-> ZeroP, cant_day |-> cd]

CoreSolutions(I) ==
    UNION { UNION { { CoreSol(I, x, u, cd) :
                        cd \in { c \in CantDayChoices(I, x) : ForbiddenCore(I, x, c) } } :
                    u \in { v \in [Shifts -> {0, 1}] : CoverageCore(I, x, v) } } :
            x \in { z \in XSpace : TypeCore(I, z) /\ ConsecCore(I, z) } }

CoreObjective(s) ==
      CoreUnfilledWeight * SumOver(s.unfilled, Shifts)
    + CoreCantWorkWeight * SumOver(s.cant_day, Providers \X Days)

----------------------------------------------------------------------------
(* public scheduler_sat_core.build_model: no slack variables *)

\* a variable exists only when the provider's type is allowed
TypePub(I, x) ==
    \A s \in Shifts : \A p \in Providers :
        I.providers[p].type \notin I.shifts[s].allowed_provider_types => x[s, p] = 0

\* sum(x) <= 1 for every shift
CoveragePub(I, x) ==
    \A s \in Shifts : Assigned(x, s) <= 1

\* x == 0 on a hard forbidden day
ForbiddenPub(I, x) ==
    \A p \in Providers : \A s \in Shifts :
        I.shifts[s].date \in I.providers[p].forbidden_days_hard => x[s, p] = 0

\* at most one shift per provider per day
OnePerDayPub(I, x) ==
    \A p \in Providers : \A d \in Days : Worked(x, p, day_to_shifts(I, d)) <= 1

\* total >= min_total when min_total > 0, total <= max_total when given
LimitsPub(I, x) ==
    \A p \in Providers :
        /\ I.providers[p].limits.min_total > 0 =>
              Worked(x, p, Shifts) >= I.providers[p].limits.min_total
        /\ I.providers[p].limits.max_total # NoKey =>
              Worked(x, p, Shifts) <= I.providers[p].limits.max_total

\* windows of max_consec + 1 days, only for a positive integer max_consec
ConsecPubFor(I, x, p) ==
    LET mc == I.providers[p].max_consecutive_days
        y  == WorksDay(I, x, p)
    IN  mc > 0 =>
          \A start \in 1..(nDays - mc) :
              SumOver(y, start..(start + mc)) <= mc

ConsecPub(I, x) == \A p \in Providers : ConsecPubFor(I, x, p)

PubSol(I, x) ==
    [x |-> x, unfilled |-> [s \in Shifts |-> 1 - Assigned(x, s)],
     less |-> ZeroP, more |-> ZeroP, cant |-> ZeroP,
     consec |-> ZeroP, hard_on |-> ZeroP, cant_day |-> ZeroPD]

PubSolutions(I) ==
    { PubSol(I, x) :
        x \in { z \in XSpace : /\ TypePub(I, z) /\ CoveragePub(I, z)
                               /\ ForbiddenPub(I, z) /\ OnePerDayPub(I, z)
                               /\ LimitsPub(I, z) /\ ConsecPub(I, z) } }

\* the objective in units of uncovered_shift_penalty, a positive constant
\* (HARD_INF_WEIGHT by default)
PubObjective(s) == SumOver(s.unfilled, Shifts)


----------------------------------------------------------------------------
(* The solve pipeline *)

selIdle ==
    /\ cb_pool = << >> /\ K = 0 /\ L = 0 /\ idxs = << >> /\ selected = << >>
    /\ thr = 0 /\ kpos = 1 /\ found_one = FALSE /\ meta = NoMeta

\* shifts last 12 hours from 07:00 of their date (hours since the first midnight)
ShiftOn(d, t, allowed) ==
    [date |-> d, type |-> t, allowed_provider_types |-> allowed,
     start |-> 24 * (d - 1) + 7, end |-> 24 * (d - 1) + 19]

NoHardOn == [d \in Days |-> {}]

NoLimits == [min_total |-> 0, max_total |-> NoKey]

PlainProvider(t) ==
    [type |-> t, forbidden_days_hard |-> {},
     limits |-> NoLimits,
     max_consecutive_days |-> NoKey,
     preferred_days_hard |-> NoHardOn]

\* the first provider's record: [forbidden_days_hard, limits,
\* max_consecutive_days, preferred_days_hard of day 1]
Profiles ==
    { <<{},  NoLimits, NoKey, {}>>,
      <<{1}, NoLimits, NoKey, {}>>,
      <<{},  [min_total |-> 1, max_total |-> NoKey], NoKey, {}>>,
      <<{},  [min_total |-> 0, max_total |-> 1], NoKey, {}>>,
      <<{},  NoLimits, 1, {}>>,
      <<{},  NoLimits, 0, {}>>,
      <<{},  NoLimits, NoKey, {ANY}>>,
      <<{1}, [min_total |-> 1, max_total |-> NoKey], NoKey, {}>>,
      <<{1}, NoLimits, NoKey, {ANY}>> }

\* the cases explored: the first shift and the first provider carry the
\* constraints, the others are plain
Cases(v) ==
    { [weekend_idx |-> w,
       shifts |-> [s \in Shifts |->
                     IF s = 1 THEN ShiftOn(1, a[1], a[2])
                     ELSE IF s = 2 THEN ShiftOn(d2, "day", ProviderTypes)
                     ELSE ShiftOn(Min2(s, NumDays), "day", ProviderTypes)],
       providers |-> [p \in Providers |->
                     IF p = 1
                     THEN [type |-> "MD", forbidden_days_hard |-> pr[1],
                           limits |-> pr[2], max_consecutive_days |-> pr[3],
                           preferred_days_hard |-> [d \in Days |-> IF d = 1 THEN pr[4] ELSE {}]]
                     ELSE IF p = 2 THEN PlainProvider(t2)
                     ELSE PlainProvider("MD")]] :
        w    \in (IF v = "gui" THEN {{}, {NumDays}} ELSE {{NumDays}}),
        a    \in {<<"MD_day", {}>>, <<"day", {}>>, <<"day", {"MD"}>>, <<"day", ProviderTypes>>},
        d2   \in {1, NumDays},
        pr   \in Profiles,
        t2   \in ProviderTypes }

Init ==
    /\ variant \in {"gui", "core", "pub"}
    /\ nDays = NumDays /\ nShifts = NumShifts
    /\ inst \in Cases(variant)
    /\ pc = "build"
    /\ st1 = "NONE" /\ sol1 = NoSol /\ frozen = NoSol /\ sol2 = NoSol
    /\ selIdle
    /\ auxIdle

(* testcase_gui: build_model and the Phase-2 solve of solve_two_phase *)

GuiBuildHard ==
    /\ pc = "build" /\ variant = "gui"
    /\ pc' = "phase1"
    /\ UNCHANGED <<variant, inst, st1, sol1, frozen, sol2>>
    /\ UNCHANGED <<selVars, auxVars>>

\* st1 = solver.Solve(model): a proven optimum, the best assignment found
\* within the time limit, or none
GuiPhase1Solve ==
    /\ pc = "phase1" /\ variant = "gui"
    /\ LET sols == GuiSolutions(inst) IN
         \/ /\ sols = {} /\ st1' = "INFEASIBLE" /\ sol1' = NoSol
         \/ /\ st1' = "UNKNOWN" /\ sol1' = NoSol
         \/ /\ st1' = "OPTIMAL" /\ sol1' \in Minimisers(sols, [s \in sols |-> HardSlackSum(s)])
         \/ /\ st1' = "FEASIBLE" /\ sol1' \in sols
    /\ pc' = "freeze"
    /\ UNCHANGED <<variant, inst, frozen, sol2>>
    /\ UNCHANGED <<selVars, auxVars>>

\* what solver.Value can return when the solve left no assignment and the
\* read does not raise: values that belong to no solution (sampled as one
\* value v for every slack)
UnreadSlack(v) ==
    [unfilled |-> [s \in Shifts |-> v], less |-> [p \in Providers |-> v],
     more |-> [p \in Providers |-> v], cant |-> [p \in Providers |-> v],
     consec |-> [p \in Providers |-> v], hard_on |-> [p \in Providers |-> v]]

\* the freeze loop. With no assignment (status UNKNOWN or INFEASIBLE)
\* solver.Value reads a solution that does not exist: it raises, or returns
\* whatever the read finds
GuiFreeze ==
    /\ pc = "freeze"
    /\ IF HasSol(sol1)
       THEN frozen' = SlackValues(sol1) /\ pc' = "build_soft"
       ELSE \/ frozen' = frozen /\ pc' = "error"
            \/ \E v \in {0, 1} : frozen' = UnreadSlack(v) /\ pc' = "build_soft"
    /\ UNCHANGED <<variant, inst, st1, sol1, sol2>>
    /\ UNCHANGED <<selVars, auxVars>>

\* the soft part of build_model; max(weekend_idx) raises on an empty set
GuiBuildSoft ==
    /\ pc = "build_soft"
    /\ pc' = IF inst.weekend_idx = {} THEN "error" ELSE "phase2"
    /\ sol1' = NoSol
    /\ UNCHANGED <<variant, inst, st1, frozen, sol2>>
    /\ UNCHANGED <<selVars, auxVars>>

\* solver2.Solve(model2, cb): sol2 is one of the assignments handed to the
\* callback, if there was any before the time limit
GuiPhase2Solve ==
    /\ pc = "phase2" /\ variant = "gui"
    /\ \/ sol2' \in GuiPhase2Feasible(inst, frozen)
       \/ sol2' = NoSol
    /\ pc' = "select"
    /\ UNCHANGED <<variant, inst, st1, sol1, frozen>>
    /\ UNCHANGED <<selVars, auxVars>>

(* scheduler_sat_core: one solve *)

CoreBuild ==
    /\ pc = "build" /\ variant = "core"
    /\ pc' = "phase1"
    /\ UNCHANGED <<variant, inst, st1, sol1, frozen, sol2>>
    /\ UNCHANGED <<selVars, auxVars>>

CoreSolve ==
    /\ pc = "phase1" /\ variant = "core"
    /\ LET sols == CoreSolutions(inst) IN
         \/ /\ sols = {} /\ st1' = "INFEASIBLE" /\ sol1' = NoSol
         \/ /\ st1' = "UNKNOWN" /\ sol1' = NoSol
         \/ /\ st1' = "OPTIMAL" /\ sol1' \in Minimisers(sols, [s \in sols |-> CoreObjective(s)])
         \/ /\ st1' = "FEASIBLE" /\ sol1' \in sols
    /\ pc' = "format"
    /\ UNCHANGED <<variant, inst, frozen, sol2>>
    /\ UNCHANGED <<selVars, auxVars>>

\* 'failed' unless the status is OPTIMAL or FEASIBLE
CoreReturn ==
    /\ pc = "format" /\ variant = "core"
    /\ pc' = IF st1 \in {"OPTIMAL", "FEASIBLE"} THEN "done" ELSE "failed"
    /\ UNCHANGED <<variant, inst, st1, sol1, frozen, sol2>>
    /\ UNCHANGED <<selVars, auxVars>>

(* public scheduler_sat_core: one solve with the pool collector *)

PubBuild ==
    /\ pc = "build" /\ variant = "pub"
    /\ pc' = "phase2"
    /\ UNCHANGED <<variant, inst, st1, sol1, frozen, sol2>>
    /\ UNCHANGED <<selVars, auxVars>>

\* status = solver.Solve(model, collector): sol2 is one of the assignments
\* handed to the collector
PubSolve ==
    /\ pc = "phase2" /\ variant = "pub"
    /\ LET sols == PubSolutions(inst) IN
         \/ /\ sols = {} /\ st1' = "INFEASIBLE" /\ sol2' = NoSol
         \/ /\ st1' = "UNKNOWN" /\ sol2' = NoSol
         \/ /\ st1' \in {"OPTIMAL", "FEASIBLE"} /\ sol2' \in sols
    /\ pc' = "select"
    /\ UNCHANGED <<variant, inst, sol1, frozen>>
    /\ UNCHANGED <<selVars, auxVars>>

Next ==
    \/ GuiBuildHard \/ GuiPhase1Solve \/ GuiFreeze \/ GuiBuildSoft
    \/ GuiPhase2Solve
    \/ CoreBuild \/ CoreSolve \/ CoreReturn
    \/ PubBuild \/ PubSolve

Spec == Init /\ [][Next]_vars


----------------------------------------------------------------------------
(* Properties of the diversity selector, checked under SpecSel *)

Returned == pc \in {"selected", "Formatted"}

PairDistance(i, j) ==
    _hamming(cb_pool[selected[i]].vector, cb_pool[selected[j]].vector)

MinObjective == CHOOSE m \in { cb_pool[i].objective : i \in DOMAIN cb_pool } :
                    \A i \in DOMAIN cb_pool : m <= cb_pool[i].objective

\* C6: for every pool, every K >= 0 and every L, _select_diverse_k returns at
\* most K solutions.
C6_AtMostK ==
    Returned => Len(selected) <= K

\* C7: when _select_diverse_k returns, every two selected solutions are at
\* Hamming distance >= the threshold in effect when the selection ended.
C7_PairwiseDistance ==
    Returned =>
        \A i, j \in 1..Len(selected) : i < j => PairDistance(i, j) >= thr

\* two solutions were selected after the threshold was relaxed, and it is
\* still positive
C7_Witness ==
    /\ Returned /\ Len(selected) >= 2
    /\ 0 < thr /\ thr < L
    /\ PairDistance(1, 2) = thr

\* C8: no pool entry is selected twice, so at most as many solutions are
\* returned as the pool holds.
C8_NoRepeat ==
    Returned =>
        /\ \A i, j \in 1..Len(selected) : i < j => selected[i] # selected[j]
        /\ Len(selected) <= Len(cb_pool)

\* C9: for a non-empty pool and K >= 1, the first solution returned has the
\* minimum objective of the whole pool.
C9_BestFirst ==
    (Returned /\ cb_pool # << >> /\ K >= 1) =>
        /\ selected # << >>
        /\ cb_pool[selected[1]].objective = MinObjective

\* the best entry is not the first of the pool and L is positive
C9_Witness ==
    /\ Returned /\ K >= 1 /\ L > 0
    /\ Len(cb_pool) >= 2
    /\ cb_pool[1].objective > cb_pool[2].objective
    /\ selected # << >> /\ selected[1] = 2

\* C10: when the threshold was relaxed below the requested L, the solve
\* result reports the threshold achieved.
C10_AchievedReported ==
    (pc = "Formatted" /\ thr < L) => (meta.hasL /\ meta.L = thr)


----------------------------------------------------------------------------
(* Properties of the constraint models, checked under Spec *)

\* the assignments present in a state: Phase 1's (sol1) and a collected one (sol2)
Solutions == { sol \in {sol1, sol2} : HasSol(sol) }

ForbiddenDates(p) == inst.providers[p].forbidden_days_hard

\* the cant_work slack of provider p for date d: one per provider in
\* testcase_gui, one per provider and day in scheduler_sat_core
CantSlack(sol, p, d) ==
    IF variant = "core" THEN sol.cant_day[p, d] ELSE sol.cant[p]

\* C1: in every solution and for every shift, the number of providers
\* assigned plus the unfilled slack is 1, the slack being 0 or 1.
C1_Coverage ==
    \A sol \in Solutions : \A s \in Shifts :
        /\ sol.unfilled[s] \in {0, 1}
        /\ Assigned(sol.x, s) + sol.unfilled[s] = 1

\* a Phase-2 solution with one shift unfilled and another assigned
C1_Witness ==
    /\ variant = "gui" /\ HasSol(sol2)
    /\ \E s \in Shifts : sol2.unfilled[s] = 1 /\ Assigned(sol2.x, s) = 0
    /\ \E s \in Shifts : sol2.unfilled[s] = 0 /\ Assigned(sol2.x, s) = 1

\* C2: no solution assigns a provider to a shift whose allowed_provider_types
\* does not contain the provider's type.
C2_Eligibility ==
    \A sol \in Solutions : \A s \in Shifts : \A p \in Providers :
        sol.x[s, p] = 1 =>
            inst.providers[p].type \in inst.shifts[s].allowed_provider_types

\* C3: a provider whose cant_work slack is 0 in a solution is assigned no
\* shift on any of its hard-forbidden dates.
C3_HardDayRespect ==
    \A sol \in Solutions : \A p \in Providers : \A d \in ForbiddenDates(p) :
        CantSlack(sol, p, d) = 0 =>
            \A s \in day_to_shifts(inst, d) : sol.x[s, p] = 0

\* a Phase-2 solution in which a provider with a forbidden date and zero
\* cant_work slack works, on another date
C3_Witness ==
    /\ variant = "gui" /\ HasSol(sol2)
    /\ \E p \in Providers :
         /\ ForbiddenDates(p) # {}
         /\ sol2.cant[p] = 0
         /\ Worked(sol2.x, p, Shifts) >= 1
         /\ \E d \in ForbiddenDates(p) : day_to_shifts(inst, d) # {}

\* C4 as stated: every hard-slack quantity recomputed from a Phase-2
\* solution's assignment equals the value frozen from Phase 1.
C4_FreezeExact ==
    (variant = "gui" /\ HasSol(sol2)) =>
        /\ \A s \in Shifts : 1 - Assigned(sol2.x, s) = frozen.unfilled[s]
        /\ \A p \in Providers :
             /\ ShortfallOf(inst, sol2.x, p) = frozen.less[p]
             /\ ExcessOf(inst, sol2.x, p) = frozen.more[p]
             /\ SlackCantWork(inst, sol2.x, p) = frozen.cant[p]
             /\ SlackConsec(inst, sol2.x, p) = frozen.consec[p]
             /\ SlackHardOn(inst, sol2.x, p) = frozen.hard_on[p]

\* C4 amended: recomputed from a Phase-2 solution's assignment, the unfilled,
\* forbidden-date, consecutive-day and required-date quantities equal the
\* frozen values, and the shortfall below min_total and the excess above
\* max_total never exceed the frozen values.
C4_FreezeBound ==
    (variant = "gui" /\ HasSol(sol2)) =>
        /\ \A s \in Shifts : 1 - Assigned(sol2.x, s) = frozen.unfilled[s]
        /\ \A p \in Providers :
             /\ ShortfallOf(inst, sol2.x, p) <= frozen.less[p]
             /\ ExcessOf(inst, sol2.x, p) <= frozen.more[p]
             /\ SlackCantWork(inst, sol2.x, p) = frozen.cant[p]
             /\ SlackConsec(inst, sol2.x, p) = frozen.consec[p]
             /\ SlackHardOn(inst, sol2.x, p) = frozen.hard_on[p]

\* a Phase-2 solution under a frozen forbidden-date slack of 1 and a frozen
\* shortfall slack above the solution's own shortfall
C4_Witness ==
    /\ variant = "gui" /\ HasSol(sol2)
    /\ \E p \in Providers : frozen.cant[p] >= 1
    /\ \E p \in Providers : ShortfallOf(inst, sol2.x, p) < frozen.less[p]

\* every provider whose type the shift allows is hard-forbidden on its date
OnlyForbiddenEligible(s) ==
    /\ \E p \in Providers :
         inst.providers[p].type \in inst.shifts[s].allowed_provider_types
    /\ \A p \in Providers :
         inst.providers[p].type \in inst.shifts[s].allowed_provider_types
             => inst.shifts[s].date \in ForbiddenDates(p)

\* C5: the solve never ends INFEASIBLE, and a shift whose only eligible
\* providers are hard-forbidden on its date is reported unfilled or with a
\* cant_work slack of 1.
C5_AlwaysSolvable ==
    /\ st1 # "INFEASIBLE"
    /\ \A sol \in Solutions : \A s \in Shifts :
         OnlyForbiddenEligible(s) =>
             \/ sol.unfilled[s] = 1
             \/ \E p \in Providers :
                  sol.x[s, p] = 1 /\ CantSlack(sol, p, inst.shifts[s].date) >= 1


\* the hard consecutive-day constraints of provider p admit assignment x
\* (testcase_gui has none: it charges slack_consec instead)
StreakAllowed(p, x) ==
    CASE variant = "core" -> ConsecCoreFor(inst, x, p)
      [] variant = "pub"  -> ConsecPubFor(inst, x, p)
      [] OTHER            -> TRUE

\* C11: for a provider whose max_consecutive_days is 0 or absent, the built
\* model forbids no assignment on account of consecutive days and no
\* solution carries consecutive-day slack for that provider.
C11_UnboundedStreaks ==
    \A p \in Providers :
        inst.providers[p].max_consecutive_days \in {0, NoKey} =>
            /\ pc = "phase1" => \A x \in XSpace : StreakAllowed(p, x)
            /\ \A sol \in Solutions : sol.consec[p] = 0


\* C12: when the first solve ends with status UNKNOWN the run is not
\* reported as failed and does not stop with an error: the pipeline proceeds.
C12_DegradedSuccess ==
    st1 = "UNKNOWN" => pc \notin {"error", "failed"}



----------------------------------------------------------------------------
(* Calendar preparation of the solver service, and the date lookup of
   build_model *)

MaxCalDays == 2

\* A calendar entry is a non-string value or a text; a text is the sequence
\* of its parts between '-' signs; a part is non-numeric, or the number val
\* written with width digits (leading zeros included).
Digits(n) == IF n < 10 THEN 1 ELSE IF n < 100 THEN 2 ELSE IF n < 1000 THEN 3 ELSE 4

NumPart(v, w) == [num |-> TRUE, val |-> v, width |-> w]
TextPart      == [num |-> FALSE, val |-> 0, width |-> 0]
NonString     == [str |-> FALSE, parts |-> << >>]
Text(ps)      == [str |-> TRUE, parts |-> ps]

\* f"{y:04d}-{m:02d}-{d:02d}"
FormatIso(y, m, d) ==
    Text(<<NumPart(y, Max2(4, Digits(y))), NumPart(m, Max2(2, Digits(m))),
           NumPart(d, Max2(2, Digits(d)))>>)

\* calendar.monthrange(y, m)[1]
IsLeap(y) == y % 4 = 0 /\ (y % 100 # 0 \/ y % 400 = 0)
LastDay(y, m) ==
    IF m = 2 THEN (IF IsLeap(y) THEN 29 ELSE 28)
    ELSE IF m \in {4, 6, 9, 11} THEN 30 ELSE 31

Years     == {2024, 2025}
MonthVals == {0, 2, 9, 13}
DayVals   == {0, 1, 30, 31}

PaddedEntries == {FormatIso(y, m, d) : y \in Years, m \in MonthVals, d \in DayVals}
UnpaddedEntries ==
    {Text(<<NumPart(2024, 4), NumPart(9, 1), NumPart(1, 1)>>),
     Text(<<NumPart(2025, 4), NumPart(2, 1), NumPart(31, 2)>>)}
OddEntries ==
    {NonString,
     Text(<<TextPart, TextPart, TextPart>>),
     Text(<<NumPart(2024, 4), NumPart(9, 2)>>),
     Text(<<NumPart(2024, 4), NumPart(9, 2), NumPart(1, 2), NumPart(1, 2)>>)}
CalEntries == PaddedEntries \cup UnpaddedEntries \cup OddEntries

DayLists  == UNION {[1..n -> CalEntries] : n \in 0..MaxCalDays}
\* A calendar object: kind "empty" is a falsy object (None or {}), kind
\* "nolist" an object whose 'days' is missing or not a list; weekend_days = {}
\* stands for a missing key.
EmptyCal   == [kind |-> "empty", days |-> << >>, weekend_days |-> {}]
NotAList   == [kind |-> "nolist", days |-> << >>, weekend_days |-> {"Saturday", "Sunday"}]
CalObj(ds) == [kind |-> "list", days |-> ds, weekend_days |-> {"Saturday", "Sunday"}]
Calendars  == {EmptyCal, NotAList} \cup {CalObj(ds) : ds \in DayLists}
ShiftDates == {FormatIso(2024, 9, 30), FormatIso(2025, 2, 1)}

IsList(cal) == cal.kind = "list"

\* the loop body without the clamp of the day number
SanitizeNoClamp(d) ==
    IF ~d.str THEN << >>
    ELSE IF Len(d.parts) # 3 THEN << >>
    ELSE IF \E i \in 1..3 : ~d.parts[i].num THEN << >>
    ELSE IF d.parts[2].val < 1 \/ d.parts[2].val > 12 THEN << >>
    ELSE IF d.parts[3].val < 1 THEN << >>
    ELSE <<FormatIso(d.parts[1].val, d.parts[2].val, d.parts[3].val)>>

\* one iteration of the loop of _sanitize_calendar: the entries appended
\* to cleaned for the entry d
SanitizeEntry(d) ==
    IF ~d.str THEN << >>
    ELSE IF Len(d.parts) # 3 THEN << >>
    ELSE IF \E i \in 1..3 : ~d.parts[i].num THEN << >>
    ELSE LET y  == d.parts[1].val
             m  == d.parts[2].val
             dd == d.parts[3].val
         IN  IF m < 1 \/ m > 12 THEN << >>
             ELSE IF dd < 1 THEN << >>
             ELSE IF dd > LastDay(y, m) THEN <<FormatIso(y, m, LastDay(y, m))>>
             ELSE <<FormatIso(y, m, dd)>>

RECURSIVE Cleaned(_)
Cleaned(ds) ==
    IF ds = << >> THEN << >>
    ELSE SanitizeEntry(Head(ds)) \o Cleaned(Tail(ds))

_sanitize_calendar(calendar_obj) ==
    IF calendar_obj.kind = "empty" THEN calendar_obj
    ELSE IF ~IsList(calendar_obj) THEN calendar_obj
    ELSE [calendar_obj EXCEPT !.days = Cleaned(calendar_obj.days)]

\* sorted(): texts of the form YYYY-MM-DD compare as their dates do
DateKey(e) == e.parts[1].val * 10000 + e.parts[2].val * 100 + e.parts[3].val

RECURSIVE SortedDates(_)
SortedDates(S) ==
    IF S = {} THEN << >>
    ELSE LET lo == CHOOSE e \in S : \A f \in S : DateKey(e) <= DateKey(f)
         IN  <<lo>> \o SortedDates(S \ {lo})

Elems(ds) == {ds[i] : i \in 1..Len(ds)}

_ensure_shifts_in_calendar(calendar_obj, d) ==
    LET obj     == IF calendar_obj.kind = "empty"
                   THEN [calendar_obj EXCEPT !.kind = "list"] ELSE calendar_obj
        days    == IF IsList(obj) THEN obj.days ELSE << >>
        missing == IF d.str /\ d \notin Elems(days) THEN {d} ELSE {}
    IN  IF missing = {} THEN obj
        ELSE [obj EXCEPT !.kind = "list",
                         !.days = SortedDates(Elems(days) \cup missing)]

\* day_name(d) raises unless d is the text of a date
IsDate(d) ==
    /\ d.str /\ Len(d.parts) = 3 /\ \A i \in 1..3 : d.parts[i].num
    /\ d.parts[1].val >= 1
    /\ d.parts[2].val \in 1..12
    /\ d.parts[3].val \in 1..LastDay(d.parts[1].val, d.parts[2].val)

\* build_model reaches cp_model.CpModel() iff none of its lookups raises
BuildRaises(cal, d) ==
    \/ ~IsList(cal)
    \/ \E e \in Elems(cal.days) : ~IsDate(e)
    \/ d \notin Elems(cal.days)

InitCal ==
    /\ cal_path \in {"service", "direct"}
    /\ cal_stage = "submitted"
    /\ calendar_in \in Calendars
    /\ calendar = calendar_in
    /\ shift_date \in ShiftDates
    /\ variant = "gui" /\ pc = "idle"
    /\ inst = NoInst /\ st1 = "NONE" /\ sol1 = NoSol /\ frozen = NoSol /\ sol2 = NoSol
    /\ selIdle /\ dimIdle /\ svcIdle /\ colIdle

notCalVars == <<variant, inst, pc, st1, sol1, frozen, sol2, selVars, dimVars, svcVars, colVars>>

Sanitize ==
    /\ cal_path = "service" /\ cal_stage = "submitted"
    /\ calendar' = _sanitize_calendar(calendar)
    /\ cal_stage' = "sanitized"
    /\ UNCHANGED <<cal_path, calendar_in, shift_date, notCalVars>>

EnsureShifts ==
    /\ cal_path = "service" /\ cal_stage = "sanitized"
    /\ calendar' = _ensure_shifts_in_calendar(calendar, shift_date)
    /\ cal_stage' = "ensured"
    /\ UNCHANGED <<cal_path, calendar_in, shift_date, notCalVars>>

BuildModel ==
    /\ \/ cal_path = "service" /\ cal_stage = "ensured"
       \/ cal_path = "direct" /\ cal_stage = "submitted"
    /\ cal_stage' = IF BuildRaises(calendar, shift_date) THEN "raised" ELSE "built"
    /\ UNCHANGED <<cal_path, calendar_in, calendar, shift_date, notCalVars>>

NextCal == Sanitize \/ EnsureShifts \/ BuildModel

SpecCal == InitCal /\ [][NextCal]_vars

\* C13: a case whose shift names a date that calendar.days does not list is
\* rejected: build_model never gets as far as creating the model.
ShiftDateListed ==
    /\ IsList(calendar_in)
    /\ shift_date \in Elems(calendar_in.days)

C13_MissingDateRejected ==
    cal_stage = "built" => ShiftDateListed


\* C18: what the sanitizer is to return for a list of calendar days.
\* An entry is readable when it is a text of three integer parts with a month
\* in 1..12 and a day number of at least 1; it is well-formed when moreover
\* its parts are written as YYYY-MM-DD (4, 2 and 2 digits).
Readable(e) ==
    /\ e.str /\ Len(e.parts) = 3 /\ \A i \in 1..3 : e.parts[i].num
    /\ e.parts[2].val \in 1..12 /\ e.parts[3].val >= 1

WellFormed(e) ==
    /\ Readable(e)
    /\ e.parts[1].width = 4 /\ e.parts[2].width = 2 /\ e.parts[3].width = 2

\* the date an entry stands for, its day number clamped to the month
SameDateClamped(e, o) ==
    /\ WellFormed(o)
    /\ o.parts[1].val = e.parts[1].val /\ o.parts[2].val = e.parts[2].val
    /\ o.parts[3].val = Min2(e.parts[3].val, LastDay(e.parts[1].val, e.parts[2].val))

\* out holds, in input order, one entry for each input entry that Keeps accepts
KeptInOrder(in, out, kept) ==
    /\ Len(out) = Cardinality(kept)
    /\ \A i \in kept :
          LET j == Cardinality({k \in kept : k <= i})
          IN  /\ SameDateClamped(in[i], out[j])
              /\ (WellFormed(in[i]) /\ IsDate(in[i])) => out[j] = in[i]

SanitizerRan ==
    /\ cal_path = "service" /\ cal_stage = "sanitized" /\ IsList(calendar_in)

\* C18 (as stated): every entry that is not a well-formed YYYY-MM-DD text is
\* dropped; the well-formed ones are kept in order, valid dates unchanged and
\* day numbers beyond the month replaced by the month's last day; the other
\* keys of the calendar are preserved.
C18_AsStated ==
    SanitizerRan =>
        /\ KeptInOrder(calendar_in.days, calendar.days,
                       {i \in 1..Len(calendar_in.days) : WellFormed(calendar_in.days[i])})
        /\ calendar.weekend_days = calendar_in.weekend_days

\* C18 (amended): every entry of three integer parts with a month in 1..12 and
\* a day of at least 1 is kept, in input order, as the zero-padded YYYY-MM-DD
\* text of its date with the day number clamped to the month's length (so a
\* well-formed valid date is unchanged); every other entry is dropped; the
\* other keys of the calendar are preserved.
C18_Sanitized ==
    SanitizerRan =>
        /\ KeptInOrder(calendar_in.days, calendar.days,
                       {i \in 1..Len(calendar_in.days) : Readable(calendar_in.days[i])})
        /\ calendar.weekend_days = calendar_in.weekend_days

C18_Witness ==
    /\ SanitizerRan
    /\ Len(calendar_in.days) = 2 /\ Len(calendar.days) = 2
    /\ calendar_in.days[1].parts[3].val > calendar.days[1].parts[3].val
    /\ calendar.days[2] = calendar_in.days[2]


----------------------------------------------------------------------------
(* Scenario A: one calendar day, one shift, providers of an allowed type and
   nothing else, through the pipeline of testcase_gui *)

ScenarioA ==
    UNION { { [weekend_idx |-> w,
               shifts      |-> [s \in Shifts |-> ShiftOn(1, a[1], a[2])],
               providers   |-> [p \in Providers |-> PlainProvider(t[p])]] :
                w \in {{}, {1}},
                t \in [Providers -> a[2]] } :
            a \in {"day", "MD_day"} \X {ProviderTypes, {"MD"}, {"NP"}} }

InitA ==
    /\ variant = "gui"
    /\ nDays = 1 /\ nShifts = 1
    /\ inst \in ScenarioA
    /\ pc = "build"
    /\ st1 = "NONE" /\ sol1 = NoSol /\ frozen = NoSol /\ sol2 = NoSol
    /\ selIdle
    /\ auxIdle

NextA ==
    \/ GuiBuildHard \/ GuiPhase1Solve \/ GuiFreeze \/ GuiBuildSoft
    \/ GuiPhase2Solve

SpecA == InitA /\ [][NextA]_vars

\* C14: on a Scenario A instance the pipeline does not end in an error once
\* Phase 1 has found its optimum, and every solution handed back assigns
\* exactly one provider to the shift, with unfilled = 0 and hard-slack sum 0.
C14_ScenarioA ==
    st1 = "OPTIMAL" =>
        /\ pc # "error"
        /\ (pc = "select" /\ HasSol(sol2)) =>
              /\ Assigned(sol2.x, 1) = 1
              /\ sol2.unfilled[1] = 0
              /\ HardSlackSum(sol2) = 0

\* the same with the calendar day being a weekend day
C14_OnWeekendDay ==
    (st1 = "OPTIMAL" /\ inst.weekend_idx # {}) =>
        /\ pc # "error"
        /\ (pc = "select" /\ HasSol(sol2)) =>
              /\ Assigned(sol2.x, 1) = 1
              /\ sol2.unfilled[1] = 0
              /\ HardSlackSum(sol2) = 0


----------------------------------------------------------------------------
(* The solver service: POST /solve, the thread pool, the status records *)

NumRuns == 2
max_workers == 4

\* the WebSocket clients that may connect for a run
NumClients == 3
Clients == 1..NumClients

\* next to the solves, one client for each run
OneClient == {1}

Runs  == 1..NumRuns
Tasks == {1, 2}      \* 1: the solve of the request handler; 2: of run_optimization
Jobs  == Runs \X Tasks

NoRec == [status |-> "absent", progress |-> 0]

\* directories: where the service was launched, solver_output, and under it
\* one folder for each run
LaunchDir     == [kind |-> "launch", run |-> 0]
output_dir    == [kind |-> "solver_output", run |-> 0]
run_output_dir(r) == [kind |-> "run", run |-> r]
NoDir         == [kind |-> "none", run |-> 0]

\* the directory _build_and_solve_model changes into
ChdirTarget(r) == IF svc = "public" THEN output_dir ELSE run_output_dir(r)

NoJob == [pc |-> "none", saved |-> NoDir, out |-> NoDir, outcome |-> "none"]

InitSvc ==
    /\ svc \in {"public", "src"}
    /\ active_runs = [r \in Runs |-> NoRec]
    /\ websocket_connections = {}
    /\ sockets = {}
    /\ hpc = [r \in Runs |-> "idle"]
    /\ job = [j \in Jobs |-> NoJob]
    /\ cwd = LaunchDir
    /\ variant = "gui" /\ pc = "idle"
    /\ inst = NoInst /\ st1 = "NONE" /\ sol1 = NoSol /\ frozen = NoSol /\ sol2 = NoSol
    /\ selIdle /\ calIdle /\ dimIdle /\ colIdle

notSvcVars == <<variant, inst, pc, st1, sol1, frozen, sol2, selVars, calVars, dimVars, colVars>>

\* _update_progress: the record is written when the run is registered; the
\* notification of a connected client is attempted and its failure swallowed
_update_progress(runs, run_id, progress) ==
    IF runs[run_id] # NoRec
    THEN [runs EXCEPT ![run_id].progress = progress]
    ELSE runs

\* a handler that leaves the record alone when the solve failed
FinalRecordOnSuccessOnly(status) ==
    IF status = "success" THEN [status |-> "success", progress |-> 100]
    ELSE [status |-> "running", progress |-> -1]

\* the record update made from the result of a solve
FinalRecord(status) ==
    [status |-> status, progress |-> IF status = "success" THEN 100 ELSE -1]

ResultStatus(j) == IF job[j].outcome = "ok" THEN "success" ELSE "error"

\* solve_schedule up to its await: register the run, submit the solve
SolveSchedule(r) ==
    /\ hpc[r] = "idle"
    /\ active_runs' = [active_runs EXCEPT ![r] = [status |-> "running", progress |-> 0]]
    /\ job' = [job EXCEPT ![<<r, 1>>].pc = "queued"]
    /\ hpc' = [hpc EXCEPT ![r] = "awaiting"]
    /\ UNCHANGED <<svc, websocket_connections, sockets, cwd, notSvcVars>>

\* solve_schedule after its await: record the result; the public service
\* then adds run_optimization as a background task
SolveScheduleReturn(r) ==
    /\ hpc[r] = "awaiting" /\ job[<<r, 1>>].pc = "done"
    /\ active_runs' = [active_runs EXCEPT ![r] = FinalRecord(ResultStatus(<<r, 1>>))]
    /\ hpc' = [hpc EXCEPT ![r] = IF svc = "public" THEN "background" ELSE "returned"]
    /\ UNCHANGED <<svc, websocket_connections, sockets, job, cwd, notSvcVars>>

\* run_optimization up to its await
RunOptimization(r) ==
    /\ hpc[r] = "background"
    /\ active_runs' = [active_runs EXCEPT ![r].status = "running"]
    /\ job' = [job EXCEPT ![<<r, 2>>].pc = "queued"]
    /\ hpc' = [hpc EXCEPT ![r] = "bg_awaiting"]
    /\ UNCHANGED <<svc, websocket_connections, sockets, cwd, notSvcVars>>

\* run_optimization after its await; _send_final_result swallows its failures
RunOptimizationReturn(r) ==
    /\ hpc[r] = "bg_awaiting" /\ job[<<r, 2>>].pc = "done"
    /\ active_runs' = [active_runs EXCEPT ![r] = FinalRecord(ResultStatus(<<r, 2>>))]
    /\ hpc' = [hpc EXCEPT ![r] = "returned"]
    /\ UNCHANGED <<svc, websocket_connections, sockets, job, cwd, notSvcVars>>

Busy == {j \in Jobs : job[j].pc \notin {"none", "queued", "done"}}

\* a pool thread takes the job: _solve_with_ortools up to _update_progress(10)
JobStart(j) ==
    /\ job[j].pc = "queued" /\ Cardinality(Busy) < max_workers
    /\ job' = [job EXCEPT ![j].pc = "started"]
    /\ active_runs' = _update_progress(active_runs, j[1], 10)
    /\ UNCHANGED <<svc, websocket_connections, sockets, hpc, cwd, notSvcVars>>

\* current_cwd = os.getcwd()
JobGetcwd(j) ==
    /\ job[j].pc = "started"
    /\ job' = [job EXCEPT ![j].pc = "gotcwd", ![j].saved = cwd]
    /\ active_runs' = _update_progress(active_runs, j[1], 30)
    /\ UNCHANGED <<svc, websocket_connections, sockets, hpc, cwd, notSvcVars>>

\* os.chdir(...)
JobChdir(j) ==
    /\ job[j].pc = "gotcwd"
    /\ cwd' = ChdirTarget(j[1])
    /\ job' = [job EXCEPT ![j].pc = "chdir"]
    /\ UNCHANGED <<svc, active_runs, websocket_connections, sockets, hpc, notSvcVars>>

\* Solve_test_case: the output folder is a relative path, resolved against
\* the working directory at the time of the write; the solve may raise
JobSolve(j) ==
    /\ job[j].pc = "chdir"
    /\ \/ job' = [job EXCEPT ![j].pc = "solved", ![j].outcome = "ok", ![j].out = cwd]
       \/ job' = [job EXCEPT ![j].pc = "solved", ![j].outcome = "exc"]
    /\ UNCHANGED <<svc, active_runs, websocket_connections, sockets, hpc, cwd, notSvcVars>>

\* finally: os.chdir(current_cwd)
JobRestore(j) ==
    /\ job[j].pc = "solved"
    /\ cwd' = job[j].saved
    /\ job' = [job EXCEPT ![j].pc = "restored"]
    /\ UNCHANGED <<svc, active_runs, websocket_connections, sockets, hpc, notSvcVars>>

\* the end of _solve_with_ortools: _update_progress(100), or the except
\* branch with _update_progress(-1)
JobReturn(j) ==
    /\ job[j].pc = "restored"
    /\ job' = [job EXCEPT ![j].pc = "done"]
    /\ active_runs' = _update_progress(active_runs, j[1],
                          IF job[j].outcome = "ok" THEN 100 ELSE -1)
    /\ UNCHANGED <<svc, websocket_connections, sockets, hpc, cwd, notSvcVars>>

\* websocket_endpoint up to its receive loop: accept, then
\* websocket_connections[run_id] = websocket
WsConnect(r, c) ==
    /\ <<r, c>> \notin sockets
    /\ sockets' = sockets \cup {<<r, c>>}
    /\ websocket_connections' =
          {e \in websocket_connections : e[1] # r} \cup {<<r, c>>}
    /\ UNCHANGED <<svc, active_runs, hpc, job, cwd, notSvcVars>>

\* the client goes away; finally: if run_id in websocket_connections:
\* del websocket_connections[run_id]
WsDisconnect(r, c) ==
    /\ <<r, c>> \in sockets
    /\ sockets' = sockets \ {<<r, c>>}
    /\ websocket_connections' = {e \in websocket_connections : e[1] # r}
    /\ UNCHANGED <<svc, active_runs, hpc, job, cwd, notSvcVars>>

JobStep(j) ==
    \/ JobStart(j) \/ JobGetcwd(j) \/ JobChdir(j)
    \/ JobSolve(j) \/ JobRestore(j) \/ JobReturn(j)

HandlerStep(r) ==
    \/ SolveScheduleReturn(r) \/ RunOptimization(r) \/ RunOptimizationReturn(r)

NextSvc ==
    \/ \E r \in Runs : SolveSchedule(r)
    \/ \E r \in Runs : SolveScheduleReturn(r)
    \/ \E r \in Runs : RunOptimization(r)
    \/ \E r \in Runs : RunOptimizationReturn(r)
    \/ \E j \in Jobs : JobStart(j)
    \/ \E j \in Jobs : JobGetcwd(j)
    \/ \E j \in Jobs : JobChdir(j)
    \/ \E j \in Jobs : JobSolve(j)
    \/ \E j \in Jobs : JobRestore(j)
    \/ \E j \in Jobs : JobReturn(j)
    \/ \E r \in Runs : \E c \in OneClient : WsConnect(r, c)
    \/ \E r \in Runs : \E c \in OneClient : WsDisconnect(r, c)

SpecSvc == InitSvc /\ [][NextSvc]_vars

\* the pool runs every submitted job to its end, and the event loop resumes
\* a handler whose awaited solve has finished
SpecSvcFair ==
    /\ InitSvc /\ [][NextSvc]_vars
    /\ \A j \in Jobs : WF_vars(JobStep(j))
    /\ \A r \in Runs : WF_vars(HandlerStep(r))

\* C15: for every run, no second task starts a solve or writes the record:
\* the solve of the request handler is the only one.
C15_SingleWriter ==
    \A r \in Runs : job[<<r, 2>>].pc = "none" /\ hpc[r] # "bg_awaiting"

AllDone ==
    \A r \in Runs : hpc[r] = "returned"

\* C16: every finished solve wrote its output under the directory meant for
\* its run, and once both runs have finished the working directory is the one
\* in effect before either started.
C16_IndependentSolves ==
    /\ \A j \in Jobs : job[j].outcome = "ok" => job[j].out = ChdirTarget(j[1])
    /\ AllDone => cwd = LaunchDir


Registered(r) == active_runs[r] # NoRec
Terminal(r)   == active_runs[r].status \in {"success", "error"}
LastTask(r)   == IF job[<<r, 2>>].pc # "none" THEN <<r, 2>> ELSE <<r, 1>>

\* a step of run r: of its handler, its background task or one of its solves
StepOf(r) == HandlerStep(r) \/ SolveSchedule(r) \/ \E t \in Tasks : JobStep(<<r, t>>)

C19_SelectorTerminates == <>Returned

C19_Witness ==
    /\ Returned /\ thr < L /\ Len(cb_pool) = MaxPool


----------------------------------------------------------------------------
(* AssignmentPoolCollector.on_solution_callback *)

pool_limit == 2

\* a collector that takes every vector for new
NeverSeen(vec, seen) == FALSE

\* vec in self._seen_vecs
IsSeen(vec, seen) == vec \in seen

\* max(range(len(pool)), key=lambda k: pool[k][0]): the first entry of
\* greatest objective
WorstIdx(pool) ==
    CHOOSE k \in 1..Len(pool) :
        /\ \A j \in 1..Len(pool) : pool[j].objective <= pool[k].objective
        /\ \A j \in 1..(k - 1) : pool[j].objective < pool[k].objective

InitCol ==
    /\ variant \in {"gui", "pub"}
    /\ pc = "collect"
    /\ cb_pool = << >> /\ _seen_vecs = {} /\ _best = -1 /\ pool_vecs = << >>
    /\ K = 0 /\ L = 0 /\ idxs = << >> /\ selected = << >>
    /\ thr = 0 /\ kpos = 1 /\ found_one = FALSE /\ meta = NoMeta
    /\ inst = NoInst /\ st1 = "NONE" /\ sol1 = NoSol /\ frozen = NoSol /\ sol2 = NoSol
    /\ calIdle /\ svcIdle /\ dimIdle

notColVars == <<variant, inst, pc, st1, sol1, frozen, sol2, K, L, idxs, selected,
                thr, kpos, found_one, meta, calVars, dimVars, svcVars>>

\* a full pool that also gives way to a solution of equal objective
OnlyWorse(obj, worst) == obj > worst

\* if obj >= self.pool[worst_idx][0]: return
NotBetter(obj, worst) == obj >= worst

\* testcase_gui: obj_slack is None, dedup is True, sense is 'min'
GuiOnSolution(obj, vec) ==
    /\ pc = "collect" /\ variant = "gui"
    /\ _best' = IF _best = -1 \/ obj < _best THEN obj ELSE _best
    /\ IF IsSeen(vec, _seen_vecs)
       THEN UNCHANGED <<cb_pool, pool_vecs, _seen_vecs>>
       ELSE IF Len(cb_pool) >= pool_limit
       THEN IF NotBetter(obj, cb_pool[WorstIdx(cb_pool)].objective)
            THEN UNCHANGED <<cb_pool, pool_vecs, _seen_vecs>>
            ELSE /\ cb_pool' = Append(RemoveAt(cb_pool, WorstIdx(cb_pool)),
                                      [objective |-> obj, vector |-> vec])
                 /\ pool_vecs' = Append(RemoveAt(pool_vecs, WorstIdx(cb_pool)), vec)
                 /\ _seen_vecs' = _seen_vecs \cup {vec}
       ELSE /\ cb_pool' = Append(cb_pool, [objective |-> obj, vector |-> vec])
            /\ pool_vecs' = Append(pool_vecs, vec)
            /\ _seen_vecs' = _seen_vecs \cup {vec}
    /\ UNCHANGED notColVars

\* public scheduler_sat_core: the search is stopped once the pool is full;
\* each entry carries its vector
PubOnSolution(obj, vec) ==
    /\ pc = "collect" /\ variant = "pub"
    /\ IF Len(cb_pool) >= pool_limit \/ IsSeen(vec, _seen_vecs)
       THEN UNCHANGED <<cb_pool, pool_vecs, _seen_vecs>>
       ELSE /\ _seen_vecs' = _seen_vecs \cup {vec}
            /\ cb_pool' = Append(cb_pool, [objective |-> obj, vector |-> vec])
            /\ pool_vecs' = Append(pool_vecs, vec)
    /\ UNCHANGED <<_best, notColVars>>

NextCol ==
    \/ \E obj \in 0..MaxObj : \E vec \in Vecs : GuiOnSolution(obj, vec)
    \/ \E obj \in 0..MaxObj : \E vec \in Vecs : PubOnSolution(obj, vec)

SpecCol == InitCol /\ [][NextCol]_vars

\* C20: after any sequence of solution callbacks no two entries of the pool
\* have the same assignment bit vector, also after entries have been evicted
\* from a full pool.
C20_PoolDistinct ==
    \A i \in 1..Len(cb_pool) : \A j \in 1..Len(cb_pool) :
        i # j => cb_pool[i].vector # cb_pool[j].vector

\* a full pool one of whose recorded vectors has been evicted
C20_Witness ==
    /\ Len(cb_pool) = pool_limit
    /\ \E v \in _seen_vecs : \A i \in 1..Len(cb_pool) : cb_pool[i].vector # v


PoolObjectives(pool) == {pool[k].objective : k \in 1..Len(pool)}
BestIn(pool)  == CHOOSE o \in PoolObjectives(pool) : \A q \in PoolObjectives(pool) : o <= q
WorstIn(pool) == CHOOSE o \in PoolObjectives(pool) : \A q \in PoolObjectives(pool) : q <= o

\* C21: the pool never holds more than pool_limit entries; pool_vecs has the
\* length of the pool and pool_vecs[k] is the vector of pool[k]; a full pool
\* changes only by giving up one entry of its worst objective for a new
\* solution of strictly better objective, so the best objective in the pool
\* never gets worse.
C21_BoundedPool ==
    /\ [](/\ Len(cb_pool) <= pool_limit
          /\ Len(pool_vecs) = Len(cb_pool)
          /\ \A k \in 1..Len(cb_pool) : pool_vecs[k] = cb_pool[k].vector)
    /\ [][(Len(cb_pool) = pool_limit /\ cb_pool' # cb_pool) =>
            LET new == cb_pool'[Len(cb_pool')] IN
            /\ Len(cb_pool') = pool_limit
            /\ new.objective < WorstIn(cb_pool)
            /\ \E k \in 1..Len(cb_pool) :
                  /\ cb_pool[k].objective = WorstIn(cb_pool)
                  /\ cb_pool' = Append(RemoveAt(cb_pool, k), new)
            /\ BestIn(cb_pool') <= BestIn(cb_pool)]_vars

\* a full pool from which a worse entry has been evicted
C21_Witness ==
    /\ variant = "gui" /\ Len(cb_pool) = pool_limit
    /\ Cardinality(_seen_vecs) > pool_limit
    /\ \A k \in 1..Len(cb_pool) : cb_pool[k].objective = 0


\* the candidates of rest, in order, that keep distance t to everything kept
\* before them
RECURSIVE GreedyFrom(_, _, _, _)
GreedyFrom(rest, acc, t, pool) ==
    IF rest = << >> THEN acc
    ELSE LET k == Head(rest)
             ok == \A j \in 1..Len(acc) :
                       _hamming(pool[k].vector, pool[acc[j]].vector) >= t
         IN  GreedyFrom(Tail(rest), IF ok THEN Append(acc, k) ELSE acc, t, pool)

GreedyAtL == GreedyFrom(SortIdxs(cb_pool), << >>, L, cb_pool)

NoCandidateQualifies ==
    \A i \in 1..Len(idxs) :
        \E j \in 1..Len(selected) :
            _hamming(cb_pool[idxs[i]].vector, cb_pool[selected[j]].vector) < thr

WorkedDays(x, p) ==
    {d \in Days : \E s \in Shifts : inst.shifts[s].date = d /\ x[s, p] = 1}

\* the number of consecutive worked days ending at d
StreakEnding(W, d) ==
    LET ks == {k \in 0..d : \A e \in (d - k + 1)..d : e \in W}
    IN  CHOOSE k \in ks : \A j \in ks : j <= k

\* C23: in every solution, run[p, d] is the number of consecutive days ending
\* at d on which p works a shift (0 when p works none on d, also when no
\* shift is scheduled on d), and max_cluster[p] is the greatest run[p, d].
C23_RunLength ==
    variant = "gui" =>
        \A sol \in Solutions : \A p \in Providers :
            LET y == WorksDay(inst, sol.x, p)
                W == WorkedDays(sol.x, p)
            IN  /\ \A d \in Days :
                      /\ RunAt(y, d) = StreakEnding(W, d)
                      /\ d \notin W => RunAt(y, d) = 0
                /\ \A d \in Days : MaxCluster(inst, sol.x, p) >= StreakEnding(W, d)
                /\ \E d \in Days : MaxCluster(inst, sol.x, p) = StreakEnding(W, d)

\* a provider with a day off followed by a worked day, another working a
\* streak of two days, on a calendar with a day without shifts
C23_Witness ==
    /\ variant = "gui" /\ HasSol(sol2)
    /\ \E p \in Providers : MaxCluster(inst, sol2.x, p) = nDays
    /\ \E p \in Providers : \E d \in Days :
          d > 1 /\ RunAt(WorksDay(inst, sol2.x, p), d) = 0


----------------------------------------------------------------------------
(* Cases with shifts of several hours, through the pipeline of testcase_gui *)

\* start and end hour of a shift, counted from the midnight of its date
Windows == {<<7, 19>>, <<19, 31>>, <<7, 15>>}

ShiftAt(d, w) ==
    [date |-> d, type |-> "day", allowed_provider_types |-> ProviderTypes,
     start |-> 24 * (d - 1) + w[1], end |-> 24 * (d - 1) + w[2]]

RestCases ==
    { [weekend_idx |-> {nDays},
       shifts      |-> [s \in Shifts |-> ShiftAt(dw[s][1], dw[s][2])],
       providers   |-> [p \in Providers |-> PlainProvider("MD")]] :
        dw \in [Shifts -> Days \X Windows] }

InitRest ==
    /\ variant = "gui"
    /\ nDays = NumDays /\ nShifts = 2
    /\ inst \in RestCases
    /\ pc = "build"
    /\ st1 = "NONE" /\ sol1 = NoSol /\ frozen = NoSol /\ sol2 = NoSol
    /\ selIdle
    /\ auxIdle

SpecRest == InitRest /\ [][NextA]_vars

Overlap(a, b) == a.start < b.end /\ b.start < a.end

\* C24: in every solution no provider has two distinct shifts whose time
\* intervals overlap or whose gap, from the end of the one that starts
\* earlier to the start of the other, is less than 12 hours, whatever the
\* order of the two shifts in the input.
C24_MinimumRest ==
    \A sol \in Solutions : \A p \in Providers : \A s1, s2 \in Shifts :
        (s1 # s2 /\ sol.x[s1, p] = 1 /\ sol.x[s2, p] = 1
              /\ inst.shifts[s1].start <= inst.shifts[s2].start) =>
            /\ ~Overlap(inst.shifts[s1], inst.shifts[s2])
            /\ inst.shifts[s2].start - inst.shifts[s1].end >= MinRestHours

\* two shifts less than 12 hours apart without overlap, the later one first
\* in the input, both assigned
C24_Witness ==
    /\ HasSol(sol2)
    /\ inst.shifts[2].start < inst.shifts[1].start
    /\ ~Overlap(inst.shifts[1], inst.shifts[2])
    /\ inst.shifts[1].start - inst.shifts[2].end < MinRestHours
    /\ Assigned(sol2.x, 1) = 1 /\ Assigned(sol2.x, 2) = 1


----------------------------------------------------------------------------
(* The soft penalties of build_model over calendars of consecutive dates *)

Saturday == 5
Sunday   == 6

\* _wd(d): the weekday of calendar day d, Monday = 0 .. Sunday = 6
_wd(I, d) == I.weekday[d]

\* weekend_pairs = [(d, d+1) ... if _wd(d) == 5 and _wd(d+1) == 6]
weekend_pairs(I) ==
    { <<d, d + 1>> : d \in { e \in 1..(nDays - 1) :
                              _wd(I, e) = Saturday /\ _wd(I, e + 1) = Sunday } }

\* a penalty for either day worked without the other
WkPenEither(y, d1, d2) ==
    IF y[d1] # y[d2] THEN 1 ELSE 0

\* diff == y[d1] - y[d2]; AddMaxEquality(pen, [diff, 0])
wk_pen(y, d1, d2) ==
    Max2(y[d1] - y[d2], 0)

\* count_horrible[i] == sum(terms)
count_horrible(I, x, p) ==
    LET y   == WorksDay(I, x, p)
        pen == [pr \in weekend_pairs(I) |-> wk_pen(y, pr[1], pr[2])]
    IN  SumOver(pen, weekend_pairs(I))

\* one day shift per calendar day, open to every provider; the calendar
\* starts on a Friday, a Saturday or a Sunday
SoftCases ==
    { [weekend_idx |-> { d \in Days : (f + d - 1) % 7 \in {Saturday, Sunday} },
       weekday     |-> [d \in Days |-> (f + d - 1) % 7],
       shifts      |-> [s \in Shifts |-> ShiftOn(s, "day", ProviderTypes)],
       providers   |-> [p \in Providers |-> PlainProvider("MD")]] :
        f \in {4, 5, 6} }

InitSoft ==
    /\ variant = "gui"
    /\ nDays = NumDays + 1 /\ nShifts = NumDays + 1
    /\ inst \in SoftCases
    /\ pc = "build"
    /\ st1 = "NONE" /\ sol1 = NoSol /\ frozen = NoSol /\ sol2 = NoSol
    /\ selIdle
    /\ auxIdle

SpecSoft == InitSoft /\ [][NextA]_vars

\* C25 as stated: for every provider and every Saturday/Sunday pair the
\* weekend penalty is 1 when the provider works exactly one of the two days
\* and 0 when the provider works both or neither.
C25_AsStated ==
    HasSol(sol2) =>
        \A p \in Providers : \A pr \in weekend_pairs(inst) :
            LET y == WorksDay(inst, sol2.x, p)
            IN  wk_pen(y, pr[1], pr[2]) = IF y[pr[1]] + y[pr[2]] = 1 THEN 1 ELSE 0

\* C25: for every provider and every Saturday/Sunday pair the weekend penalty
\* is 1 when the provider works the Saturday without the Sunday and 0
\* otherwise (both days, neither, or the Sunday without the Saturday), and
\* count_horrible is the number of pairs that are penalised.
C25_SaturdayOnly ==
    HasSol(sol2) =>
        \A p \in Providers :
            LET y == WorksDay(inst, sol2.x, p) IN
            /\ \A pr \in weekend_pairs(inst) :
                  wk_pen(y, pr[1], pr[2]) =
                      IF y[pr[1]] = 1 /\ y[pr[2]] = 0 THEN 1 ELSE 0
            /\ count_horrible(inst, sol2.x, p) =
                  Cardinality({ pr \in weekend_pairs(inst) :
                                  y[pr[1]] = 1 /\ y[pr[2]] = 0 })

\* a Phase-2 solution where one provider works a Sunday without its Saturday
\* and another a Saturday without its Sunday
C25_Witness ==
    /\ HasSol(sol2)
    /\ \E pr \in weekend_pairs(inst) : \E p, q \in Providers :
          /\ WorksDay(inst, sol2.x, p)[pr[1]] = 0
          /\ WorksDay(inst, sol2.x, p)[pr[2]] = 1
          /\ WorksDay(inst, sol2.x, q)[pr[1]] = 1
          /\ WorksDay(inst, sol2.x, q)[pr[2]] = 0


(* cluster_cubesums: the cubic penalty of cluster lengths *)

\* every worked day taken as the end of a cluster
EveryWorkedDay(y, d, N) == y[d]

\* end_d == (y_d == 1 and y_{d+1} == 0); on the last day end_d == y_d
cluster_end(y, d, N) ==
    IF d < N
    THEN IF y[d] = 1 /\ y[d + 1] = 0 THEN 1 ELSE 0
    ELSE y[d]

\* L_d = run[d] if end_d else 0
cluster_len(y, d, N) ==
    IF cluster_end(y, d, N) = 1 THEN RunAt(y, d) ELSE 0

\* cluster_cubesums[i] == sum(cube_terms), each term L_d * L_d * L_d
cluster_cubesum(y, N) ==
    LET L3 == [d \in 1..N |->
                 cluster_len(y, d, N) * cluster_len(y, d, N) * cluster_len(y, d, N)]
    IN  SumOver(L3, 1..N)

\* the maximal runs of consecutive worked days, as <<first day, last day>>
Clusters(y, N) ==
    { c \in (1..N) \X (1..N) :
        /\ c[1] <= c[2]
        /\ \A d \in c[1]..c[2] : y[d] = 1
        /\ (c[1] = 1 \/ y[c[1] - 1] = 0)
        /\ (c[2] = N \/ y[c[2] + 1] = 0) }

CubeOfClusters(y, N) ==
    LET cube == [c \in Clusters(y, N) |->
                   (c[2] - c[1] + 1) * (c[2] - c[1] + 1) * (c[2] - c[1] + 1)]
    IN  SumOver(cube, Clusters(y, N))

\* C26: in every solution cluster_cubesum[p] is the sum, over the provider's
\* maximal runs of consecutive worked days, each counted once, of the run
\* length cubed; over seven days one 6-day streak is charged 216 and two
\* 3-day streaks are charged 54.
C26_CubicClusters ==
    /\ \A sol \in Solutions : \A p \in Providers :
          cluster_cubesum(WorksDay(inst, sol.x, p), nDays)
              = CubeOfClusters(WorksDay(inst, sol.x, p), nDays)
    /\ cluster_cubesum(<<1, 1, 1, 1, 1, 1, 0>>, 7) = 216
    /\ cluster_cubesum(<<1, 1, 1, 0, 1, 1, 1>>, 7) = 54

\* a Phase-2 solution where a provider has two clusters of one day, charged 2
C26_Witness ==
    /\ HasSol(sol2)
    /\ \E p \in Providers :
          /\ WorksDay(inst, sol2.x, p) = [d \in Days |-> IF d = 2 THEN 0 ELSE 1]
          /\ nDays = 3
          /\ cluster_cubesum(WorksDay(inst, sol2.x, p), nDays) = 2


----------------------------------------------------------------------------
(* The order of the stages of a solve run *)

\* Building 1, Phase1Solving 2, Phase1Done 3 (the freeze and the rebuild
\* with the soft part), Phase2Solving 4, Selecting 5, Formatted 6; 0 for a
\* run that has stopped with an error
StageOf(c) ==
    CASE c = "build"                  -> 1
      [] c = "phase1"                 -> 2
      [] c \in {"freeze", "build_soft"} -> 3
      [] c = "phase2"                 -> 4
      [] c = "select"                 -> 5
      [] c \in {"format", "done"}     -> 6
      [] OTHER                        -> 0

InOrder ==
    pc' # pc =>
        \/ StageOf(pc') = 0
        \/ StageOf(pc') = StageOf(pc)
        \/ StageOf(pc') = StageOf(pc) + 1

\* C27: in every solve run the stages occur in the order Building,
\* Phase1Solving, Phase1Done, Phase2Solving, Selecting, Formatted, none
\* skipped or repeated.
C27_PipelineOrder == [][InOrder]_vars

\* the same for the runs of testcase_gui alone
C27_GuiOrder == [][variant = "gui" => InOrder]_vars


----------------------------------------------------------------------------
(* testcase_gui._select_diverse_k as a function of its arguments *)

\* one pass of "for k in idxs" from position i: the selection when the pass
\* ends or when it reaches k entries
RECURSIVE GuiPass(_, _, _, _, _, _)
GuiPass(ix, i, acc, t, k, pool) ==
    IF i > Len(ix) THEN acc
    ELSE IF GuiDiverse(ix[i], acc, t, pool)
         THEN IF Len(acc) + 1 = k THEN Append(acc, ix[i])
              ELSE GuiPass(ix, i + 1, Append(acc, ix[i]), t, k, pool)
         ELSE GuiPass(ix, i + 1, acc, t, k, pool)

\* the "while True" loop: passes at thr, thr - 1, ... down to relax_to
RECURSIVE GuiPasses(_, _, _, _, _)
GuiPasses(ix, acc, t, k, pool) ==
    LET after == GuiPass(ix, 1, acc, t, k, pool)
    IN  IF Len(after) = k /\ after # acc THEN after
        ELSE IF t > relax_to THEN GuiPasses(ix, after, t - 1, k, pool)
        ELSE after

GuiSelected(pool, k, l) == GuiPasses(SortIdxs(pool), << >>, l, k, pool)

\* C28: for every pool, every K >= 1 and every L >= 0, with relaxation floor
\* 0, _select_diverse_k of scheduler_sat_core.py returns the same solutions
\* in the same order as _select_diverse_k of testcase_gui.py.
C28_SelectorEquivalence ==
    (variant = "pub" /\ Returned /\ K >= 1) =>
        selected = GuiSelected(cb_pool, K, L)

\* the function agrees with the steps of testcase_gui's own selector
C28_GuiFunction ==
    (variant = "gui" /\ Returned /\ K >= 1) =>
        selected = GuiSelected(cb_pool, K, L)


----------------------------------------------------------------------------
(* The status record of a run after it has become terminal *)

\* C29: once the status record of a run has a terminal status (success or
\* error), its status never returns to 'running' and its progress never
\* changes again; status success goes with progress 100 and status error
\* with progress -1.
C29_TerminalStable ==
    /\ [][\A r \in Runs :
            Terminal(r) =>
                /\ active_runs'[r].status = active_runs[r].status
                /\ active_runs'[r].progress = active_runs[r].progress]_vars
    /\ [](\A r \in Runs :
            /\ active_runs[r].status = "success" => active_runs[r].progress = 100
            /\ active_runs[r].status = "error" => active_runs[r].progress = -1)

\* the same for the service of src/ alone
C29_SrcStable ==
    [][svc = "src" =>
        \A r \in Runs :
            Terminal(r) => active_runs'[r] = active_runs[r]]_vars


----------------------------------------------------------------------------
(* websocket_endpoint with several clients for one run *)

NextWs ==
    \/ \E r \in Runs : \E c \in Clients : WsConnect(r, c)
    \/ \E r \in Runs : \E c \in Clients : WsDisconnect(r, c)

SpecWs == InitSvc /\ [][NextWs]_vars

\* the client registered for run r, as a set: empty when the key is absent
RegisteredFor(r) == { e[2] : e \in { f \in websocket_connections : f[1] = r } }

\* C30: while at least one client of a run is connected,
\* websocket_connections[run_id] refers to a client that is still connected;
\* the disconnect of one client never removes the registration of another
\* client that is still connected for the same run.
C30_Registration ==
    /\ [](\A r \in Runs :
            (\E c \in Clients : <<r, c>> \in sockets) =>
                \E c \in RegisteredFor(r) : <<r, c>> \in sockets)
    /\ [][\A r \in Runs : \A c \in RegisteredFor(r) :
            <<r, c>> \in sockets' => <<r, c>> \in websocket_connections']_vars

\* the dict holds at most one client for a run, and only after it connected
C30_OneEntry ==
    \A r \in Runs : Cardinality(RegisteredFor(r)) <= 1

====
